---- MODULE Spec2Model ----
(***************************************************************************)
(* The two-phase greedy scheduling engine of the repository, in its two    *)
(* implementations:                                                        *)
(*   simple_scheduler.generate_schedule   (src/simple_scheduler.py)        *)
(*   milestone2.generate_schedule         (src/milestone2.py)              *)
(* Phase 1 binds course sections to blocks, Phase 2 binds student requests *)
(* to sections.  One run of generate_schedule is one behaviour; the        *)
(* variable impl says which implementation runs.  Python dicts are         *)
(* functions whose DOMAIN is the set of keys present; a defaultdict gains  *)
(* a key the first time it is read.                                        *)
(***************************************************************************)
EXTENDS Integers, Sequences, FiniteSets, TLC

VARIABLES
    data,                \* <<data>> of the call preprocess_data(data, rules); <<>> when
                         \* generate_schedule is called on indices built elsewhere
    first_run,           \* <<what the first call returned>> once a second call has
                         \* started; <<>> before
    impl,                \* which generate_schedule runs
    course_details,      \* preprocessed['course_details']
    course_to_lecturer,  \* preprocessed['course_to_lecturer']
    course_requests,     \* preprocessed['course_requests'] (lists; sorted in place by simple)
    student_schedule,    \* defaultdict(dict): student id -> block -> course info
    teacher_schedule,    \* defaultdict(dict): lecturer id -> block -> course info
    section_assignments, \* defaultdict(list): section key -> roster
    section_blocks,      \* dict: section key -> block
    resolved,            \* list of requests
    unresolved,          \* list of requests
    pc,                  \* position in generate_schedule
    ti,                  \* index of req_type in rules['priority_order'] (milestone2 loops)
    ci,                  \* index of course_code in course_requests.items()
    si,                  \* section_num of the Phase 1 section loop
    ri,                  \* index of req in the Phase 2 request loop
    assigned_blocks,     \* set(): blocks claimed by earlier sections in this course pass
    attempts,            \* history: one entry per Phase 2 request attempt, in order
    sections_tried       \* history: the <<course_code, section_num>> of the section
                         \* loop iterations Phase 1 has executed

vars == <<data, first_run, impl, course_details, course_to_lecturer, course_requests,
          student_schedule, teacher_schedule, section_assignments, section_blocks,
          resolved, unresolved, pc, ti, ci, si, ri, assigned_blocks, attempts,
          sections_tried>>

(***************************************************************************)
(* Bounds of the model.                                                    *)
(***************************************************************************)
MaxSections == 2
MaxSize == 1
MaxReqs == 2

(***************************************************************************)
(* Program constants.                                                      *)
(***************************************************************************)
DefaultNumSections == 1
DefaultMaxSize == 25
UnrankedPriority == 999

\* rules['all_blocks'], cut to its first two blocks
all_blocks == <<"1A", "1B">>

\* priority_order with the tiers in the reverse order
priority_order_Reversed == <<"Recommended", "Requested", "Required">>

\* rules['priority_order']
priority_order == <<"Required", "Requested", "Recommended">>

\* iteration order of course_requests.items()
course_order == <<"BIB9", "BIB10">>

Students == {"S1", "S2"}

(***************************************************************************)
(* Python dict, list and string helpers.                                   *)
(***************************************************************************)
EmptyDict == [k \in {} |-> 0]

\* d.get(k, default)
Get(d, k, default) == IF k \in DOMAIN d THEN d[k] ELSE default

\* d[k] = v
Put(d, k, v) == [x \in (DOMAIN d) \cup {k} |-> IF x = k THEN v ELSE d[x]]

\* reading dd[k] of a defaultdict: the key is created with the default value
Touch(dd, k, empty) == IF k \in DOMAIN dd THEN dd ELSE Put(dd, k, empty)

\* the elements of a list
Range(list) == {list[i] : i \in 1..Len(list)}

\* x in list
InList(x, list) == \E i \in 1..Len(list) : list[i] = x

\* f"{course_code}_{section_num}"
SectionKey(course_code, section_num) == course_code \o "_" \o ToString(section_num)

\* f"{course_code} (Section {section_num})"
CourseInfo(course_code, section_num) ==
    course_code \o " (Section " \o ToString(section_num) \o ")"

\* course_to_lecturer.get(section_key, f"unknown_{course_code}")
LecturerOf(course_code, section_num) ==
    Get(course_to_lecturer, SectionKey(course_code, section_num), "unknown_" \o course_code)

\* Python's a // b for b # 0 (floor division)
FloorDiv(a, b) == IF b > 0 THEN a \div b ELSE (0 - a) \div (0 - b)

Min(a, b) == IF a <= b THEN a ELSE b

\* Python's None; None and the empty string are both falsy
None == ""

(***************************************************************************)
(* Inputs: the preprocessed indices generate_schedule receives.            *)
(***************************************************************************)
\* a request is a dict; the keys 'student ID' and 'Type' may be missing.
\* rid stands for the identity of the dict object.
Request(student_id, type) == [student_ID |-> student_id, Type |-> type]

RequestBodies ==
    {Request(s, t) : s \in Students, t \in {"Required", "Requested", "Recommended"}}
        \cup {Request("S2", "Elective"), [student_ID |-> "S1"], [Type |-> "Required"]}

RequestLists(n) == [1..n -> RequestBodies]

WithRid(list, offset) == [i \in 1..Len(list) |-> Put(list[i], "rid", offset + i)]

RequestIndex(first, second) ==
    [c \in {course_order[1], course_order[2]} |->
        IF c = course_order[1] THEN WithRid(first, 0) ELSE WithRid(second, Len(first))]

AllRequestIndices ==
    UNION {{RequestIndex(first, second) :
                first \in RequestLists(n[1]), second \in RequestLists(n[2])} :
           n \in {m \in (0..MaxReqs) \X (0..MaxReqs) : m[1] + m[2] <= MaxReqs}}

\* request indices that make the tiers, the students and the two courses meet;
\* the last one has more students of one tier than two sections of one seat hold
CoreRequestIndices ==
    {RequestIndex(<<Request("S1", "Required"), Request("S2", "Required"),
                    Request("S1", "Requested")>>, <<>>),
     RequestIndex(<<Request("S1", "Required"), Request("S2", "Requested")>>,
                  <<Request("S2", "Recommended")>>),
     RequestIndex(<<Request("S1", "Requested")>>,
                  <<Request("S1", "Required"), Request("S2", "Recommended")>>),
     RequestIndex(<<Request("S1", "Required"), Request("S2", "Required")>>,
                  <<Request("S1", "Required")>>),
     RequestIndex(<<Request("S1", "Requested")>>,
                  <<Request("S2", "Required"), Request("S1", "Recommended")>>),
     RequestIndex(<<Request("S1", "Required"), [Type |-> "Required"]>>,
                  <<[student_ID |-> "S2"]>>),
     RequestIndex(<<Request("S1", "Required"), Request("S2", "Required"),
                    Request("S3", "Required")>>, <<>>)}

\* a course's (available_blocks, unavailable_blocks)
BlockChoices ==
    {<<(<<"1A", "1B">>), {}>>, <<(<<"1B", "1A">>), {}>>, <<(<<"1A">>), {}>>,
     <<(<<"1A", "1B">>), {"1A"}>>, <<(<<"1A">>), {"1A"}>>, <<(<<>>), {}>>}

Course(n, m, available, unavailable) ==
    [num_sections |-> n, max_size |-> m, available_blocks |-> available,
     unavailable_blocks |-> unavailable]

\* courses with at least one seat per section; the core catalogs below add
\* courses whose max_size is 0
KnownCourses ==
    {Course(n, m, b[1], b[2]) : n \in 1..MaxSections, m \in 1..MaxSize, b \in BlockChoices}

\* a course code with requests may have no course record
Catalog(first, second) ==
    [c \in {course_order[1], course_order[2]} |->
        IF c = course_order[1] THEN first ELSE second]

AllCatalogs == UNION {[K -> KnownCourses] : K \in SUBSET {course_order[1], course_order[2]}}

Lecturers(keys) == [k \in keys |-> "L1"]

\* no lecturer on record, one for the first section of the first course, one
\* shared by the first sections of both courses
LecturerMaps ==
    {Lecturers({}),
     Lecturers({SectionKey(course_order[1], 1)}),
     Lecturers({SectionKey(course_order[1], 1), SectionKey(course_order[2], 1)})}

\* (course_details, course_to_lecturer)
CoreCatalogs ==
    {<<Catalog(Course(1, 1, <<"1A", "1B">>, {}), Course(1, 1, <<"1A", "1B">>, {})),
       Lecturers({})>>,
     <<Catalog(Course(2, 1, <<"1A", "1B">>, {}), Course(1, 2, <<"1A">>, {})),
       Lecturers({})>>,
     <<[c \in {course_order[2]} |-> Course(2, 2, <<"1A", "1B">>, {})],
       Lecturers({SectionKey(course_order[1], 1)})>>,
     <<Catalog(Course(2, 1, <<"1B", "1A">>, {}), Course(1, 1, <<"1A", "1B">>, {})),
       Lecturers({SectionKey(course_order[1], 1), SectionKey(course_order[2], 1)})>>,
     <<Catalog(Course(1, 0, <<"1A", "1B">>, {}), Course(2, 1, <<"1A", "1B">>, {})),
       Lecturers({})>>,
     <<Catalog(Course(2, 2, <<"1A", "1B">>, {}), Course(2, 1, <<"1A", "1B">>, {})),
       Lecturers({})>>,
     <<Catalog(Course(2, 1, <<"1A", "1B">>, {}), Course(1, 0, <<"1A", "1B">>, {})),
       Lecturers({})>>}

Implementations == {"simple_scheduler", "milestone2"}

\* The state after lines 84-91 of simple_scheduler.py, 189-196 of milestone2.py.
\* The inputs are every catalog within the bounds with the core request
\* indices, and every request index within the bounds with the core catalogs.
Init ==
    /\ data = <<>>
    /\ first_run = <<>>
    /\ impl \in Implementations
    /\ \/ /\ course_details \in AllCatalogs
          /\ course_to_lecturer \in LecturerMaps
          /\ course_requests \in CoreRequestIndices
       \/ /\ \E k \in CoreCatalogs :
                /\ course_details = k[1]
                /\ course_to_lecturer = k[2]
          /\ course_requests \in AllRequestIndices
    /\ student_schedule = EmptyDict
    /\ teacher_schedule = EmptyDict
    /\ section_assignments = EmptyDict
    /\ section_blocks = EmptyDict
    /\ resolved = <<>>
    /\ unresolved = <<>>
    /\ pc = "p1_course"
    /\ ti = 1
    /\ ci = 1
    /\ si = 1
    /\ ri = 1
    /\ assigned_blocks = {}
    /\ attempts = <<>>
    /\ sections_tried = {}

(***************************************************************************)
(* Operations shared by the actions.                                       *)
(***************************************************************************)
\* priority_map.get(x.get('Type', 'Recommended'), 999)
PriorityKey(req) ==
    LET type == Get(req, "Type", "Recommended") IN
    IF \E i \in 1..Len(priority_order) : priority_order[i] = type
    THEN (CHOOSE i \in 1..Len(priority_order) : priority_order[i] = type) - 1
    ELSE UnrankedPriority

\* requests.sort(key=lambda x: priority_map.get(...)): Python's sort is stable;
\* x is inserted after every element whose key is not greater
RECURSIVE InsertByPriority(_, _)
InsertByPriority(sorted, x) ==
    IF sorted = <<>> THEN <<x>>
    ELSE IF PriorityKey(sorted[1]) <= PriorityKey(x)
         THEN <<sorted[1]>> \o InsertByPriority(Tail(sorted), x)
         ELSE <<x>> \o sorted

\* a sort by priority that is not stable: requests of one tier come out in
\* the reverse of their order in the list
RECURSIVE SortByPriority_TiesReversed(_)
SortByPriority_TiesReversed(list) ==
    IF list = <<>> THEN <<>>
    ELSE LET sorted == SortByPriority_TiesReversed(SubSeq(list, 1, Len(list) - 1))
             x == list[Len(list)]
             before == SelectSeq(sorted, LAMBDA y : PriorityKey(y) < PriorityKey(x))
             after == SelectSeq(sorted, LAMBDA y : PriorityKey(y) >= PriorityKey(x))
         IN  before \o <<x>> \o after

\* SortByPriority that leaves the list as it is
SortByPriority_Unsorted(list) == list

RECURSIVE SortByPriority(_)
SortByPriority(list) ==
    IF list = <<>> THEN <<>>
    ELSE InsertByPriority(SortByPriority(SubSeq(list, 1, Len(list) - 1)), list[Len(list)])

\* [r for r in requests if r.get('Type', '') == req_type]
TypeRequests(requests, req_type) ==
    SelectSeq(requests, LAMBDA r : Get(r, "Type", "") = req_type)

(***************************************************************************)
(* simple_scheduler.generate_schedule, Phase 1.                            *)
(***************************************************************************)
\* S_FindBlock without the check of the lecturer's schedule
RECURSIVE S_FindBlock_NoLecturerCheck(_, _, _, _, _, _)
S_FindBlock_NoLecturerCheck(course_code, section_num, available_blocks, unavailable_blocks, i, ts) ==
    IF i > Len(all_blocks) THEN [best_block |-> None, ts |-> ts]
    ELSE LET block == all_blocks[i] IN
         IF \/ ~InList(block, available_blocks)
            \/ block \in unavailable_blocks
            \/ block \in assigned_blocks
         THEN S_FindBlock_NoLecturerCheck(course_code, section_num, available_blocks,
                                          unavailable_blocks, i + 1, ts)
         ELSE [best_block |-> block,
               ts |-> Touch(ts, LecturerOf(course_code, section_num), EmptyDict)]

\* the block scan of one section, from all_blocks[i] on; ts is teacher_schedule,
\* which gains the lecturer's key when it is first read
RECURSIVE S_FindBlock(_, _, _, _, _, _)
S_FindBlock(course_code, section_num, available_blocks, unavailable_blocks, i, ts) ==
    IF i > Len(all_blocks) THEN [best_block |-> None, ts |-> ts]
    ELSE LET block == all_blocks[i] IN
         IF \/ ~InList(block, available_blocks)
            \/ block \in unavailable_blocks
            \/ block \in assigned_blocks
         THEN S_FindBlock(course_code, section_num, available_blocks, unavailable_blocks, i + 1, ts)
         ELSE LET lecturer_id == LecturerOf(course_code, section_num)
                  ts1 == Touch(ts, lecturer_id, EmptyDict)
              IN  IF block \in DOMAIN ts1[lecturer_id]
                  THEN S_FindBlock(course_code, section_num, available_blocks,
                                   unavailable_blocks, i + 1, ts1)
                  ELSE [best_block |-> block, ts |-> ts1]

\* the course loop of Phase 1 moves on; after the last course Phase 2 starts
S_P1NextCourse ==
    IF ci < Len(course_order)
    THEN /\ ci' = ci + 1
         /\ pc' = "p1_course"
    ELSE /\ ci' = 1
         /\ pc' = "p2_course"

\* S_P1Course that skips an unknown course without recording its requests
S_P1Course_NoExtend ==
    /\ impl = "simple_scheduler"
    /\ pc = "p1_course"
    /\ LET course_code == course_order[ci] IN
       IF course_code \notin DOMAIN course_details
       THEN /\ S_P1NextCourse
            /\ UNCHANGED <<si, assigned_blocks>>
       ELSE /\ assigned_blocks' = {}
            /\ si' = 1
            /\ IF course_details[course_code].num_sections >= 1
               THEN /\ pc' = "p1_section"
                    /\ ci' = ci
               ELSE S_P1NextCourse
    /\ UNCHANGED <<data, first_run, impl, course_details, course_to_lecturer, course_requests,
                   student_schedule, teacher_schedule, section_assignments,
                   section_blocks, resolved, unresolved, ti, ri, attempts, sections_tried>>

\* one iteration of `for course_code, requests in course_requests.items()`,
\* up to the section loop
S_P1Course ==
    /\ impl = "simple_scheduler"
    /\ pc = "p1_course"
    /\ LET course_code == course_order[ci] IN
       IF course_code \notin DOMAIN course_details
       THEN /\ unresolved' = unresolved \o course_requests[course_code]
            /\ S_P1NextCourse
            /\ UNCHANGED <<si, assigned_blocks>>
       ELSE /\ assigned_blocks' = {}
            /\ si' = 1
            /\ IF course_details[course_code].num_sections >= 1
               THEN /\ pc' = "p1_section"
                    /\ ci' = ci
               ELSE S_P1NextCourse
            /\ UNCHANGED unresolved
    /\ UNCHANGED <<data, first_run, impl, course_details, course_to_lecturer, course_requests,
                   student_schedule, teacher_schedule, section_assignments,
                   section_blocks, resolved, ti, ri, attempts, sections_tried>>

\* one iteration of `for section_num in range(1, num_sections + 1)`
S_P1Section ==
    /\ impl = "simple_scheduler"
    /\ pc = "p1_section"
    /\ LET course_code == course_order[ci]
           course == course_details[course_code]
           available_blocks == IF course.available_blocks = <<>>
                               THEN all_blocks ELSE course.available_blocks
           unavailable_blocks == course.unavailable_blocks
           section_key == SectionKey(course_code, si)
           found == S_FindBlock(course_code, si, available_blocks, unavailable_blocks,
                                1, teacher_schedule)
           best_block == found.best_block
           lecturer_id == LecturerOf(course_code, si)
       IN  /\ IF best_block # None
              THEN /\ assigned_blocks' = assigned_blocks \cup {best_block}
                   /\ section_blocks' = Put(section_blocks, section_key, best_block)
                   /\ teacher_schedule' =
                          Put(found.ts, lecturer_id,
                              Put(Touch(found.ts, lecturer_id, EmptyDict)[lecturer_id],
                                  best_block, CourseInfo(course_code, si)))
              ELSE /\ teacher_schedule' = found.ts
                   /\ UNCHANGED <<assigned_blocks, section_blocks>>
           /\ IF si < course.num_sections
              THEN /\ si' = si + 1
                   /\ UNCHANGED <<pc, ci>>
              ELSE /\ si' = 1
                   /\ S_P1NextCourse
    /\ UNCHANGED <<data, first_run, impl, course_details, course_to_lecturer, course_requests,
                   student_schedule, section_assignments, resolved, unresolved,
                   ti, ri, attempts>>
    /\ sections_tried' = sections_tried \cup {<<course_order[ci], si>>}

(***************************************************************************)
(* Phase 2, the handling of one request (the same code in both files).     *)
(***************************************************************************)
\* ScanSections without the check that the student is free in the block
RECURSIVE ScanSections_NoStudentCheck(_, _, _, _, _, _, _)
ScanSections_NoStudentCheck(course_code, student_id, section_num, num_sections, max_size, sa, ss) ==
    IF section_num > num_sections
    THEN [assigned |-> FALSE, section |-> 0, sa |-> sa, ss |-> ss]
    ELSE LET section_key == SectionKey(course_code, section_num)
             block == Get(section_blocks, section_key, None)
         IN  IF block = None
             THEN ScanSections_NoStudentCheck(course_code, student_id, section_num + 1,
                                              num_sections, max_size, sa, ss)
             ELSE LET sa1 == Touch(sa, section_key, <<>>) IN
                  IF Len(sa1[section_key]) >= max_size
                  THEN ScanSections_NoStudentCheck(course_code, student_id, section_num + 1,
                                                   num_sections, max_size, sa1, ss)
                  ELSE LET ss1 == Touch(ss, student_id, EmptyDict) IN
                       [assigned |-> TRUE,
                        section  |-> section_num,
                        sa |-> Put(sa1, section_key, Append(sa1[section_key], student_id)),
                        ss |-> Put(ss1, student_id,
                                   Put(ss1[student_id], block,
                                       CourseInfo(course_code, section_num)))]

\* ScanSections with the capacity test off by one (> for >=)
RECURSIVE ScanSections_OffByOne(_, _, _, _, _, _, _)
ScanSections_OffByOne(course_code, student_id, section_num, num_sections, max_size, sa, ss) ==
    IF section_num > num_sections
    THEN [assigned |-> FALSE, section |-> 0, sa |-> sa, ss |-> ss]
    ELSE LET section_key == SectionKey(course_code, section_num)
             block == Get(section_blocks, section_key, None)
         IN  IF block = None
             THEN ScanSections_OffByOne(course_code, student_id, section_num + 1,
                                        num_sections, max_size, sa, ss)
             ELSE LET sa1 == Touch(sa, section_key, <<>>) IN
                  IF Len(sa1[section_key]) > max_size
                  THEN ScanSections_OffByOne(course_code, student_id, section_num + 1,
                                             num_sections, max_size, sa1, ss)
                  ELSE LET ss1 == Touch(ss, student_id, EmptyDict) IN
                       IF block \in DOMAIN ss1[student_id]
                       THEN ScanSections_OffByOne(course_code, student_id, section_num + 1,
                                                  num_sections, max_size, sa1, ss1)
                       ELSE [assigned |-> TRUE,
                             section  |-> section_num,
                             sa |-> Put(sa1, section_key, Append(sa1[section_key], student_id)),
                             ss |-> Put(ss1, student_id,
                                        Put(ss1[student_id], block,
                                            CourseInfo(course_code, section_num)))]

\* ScanSections that tries the sections from the last one down to the first
RECURSIVE ScanSections_HighestFirst(_, _, _, _, _, _, _)
ScanSections_HighestFirst(course_code, student_id, section_num, num_sections, max_size, sa, ss) ==
    IF section_num > num_sections
    THEN [assigned |-> FALSE, section |-> 0, sa |-> sa, ss |-> ss]
    ELSE LET section == num_sections + 1 - section_num
             section_key == SectionKey(course_code, section)
             block == Get(section_blocks, section_key, None)
         IN  IF block = None
             THEN ScanSections_HighestFirst(course_code, student_id, section_num + 1,
                                            num_sections, max_size, sa, ss)
             ELSE LET sa1 == Touch(sa, section_key, <<>>) IN
                  IF Len(sa1[section_key]) >= max_size
                  THEN ScanSections_HighestFirst(course_code, student_id, section_num + 1,
                                                 num_sections, max_size, sa1, ss)
                  ELSE LET ss1 == Touch(ss, student_id, EmptyDict) IN
                       IF block \in DOMAIN ss1[student_id]
                       THEN ScanSections_HighestFirst(course_code, student_id,
                                                      section_num + 1, num_sections,
                                                      max_size, sa1, ss1)
                       ELSE [assigned |-> TRUE,
                             section  |-> section,
                             sa |-> Put(sa1, section_key, Append(sa1[section_key], student_id)),
                             ss |-> Put(ss1, student_id,
                                        Put(ss1[student_id], block,
                                            CourseInfo(course_code, section)))]

\* ScanSections that gives up after the first section of the course
ScanSections_FirstSectionOnly(course_code, student_id, section_num, num_sections, max_size, sa, ss) ==
    IF section_num > num_sections
    THEN [assigned |-> FALSE, section |-> 0, sa |-> sa, ss |-> ss]
    ELSE LET section_key == SectionKey(course_code, section_num)
             block == Get(section_blocks, section_key, None)
         IN  IF block = None
             THEN [assigned |-> FALSE, section |-> 0, sa |-> sa, ss |-> ss]
             ELSE LET sa1 == Touch(sa, section_key, <<>>) IN
                  IF Len(sa1[section_key]) >= max_size
                  THEN [assigned |-> FALSE, section |-> 0, sa |-> sa1, ss |-> ss]
                  ELSE LET ss1 == Touch(ss, student_id, EmptyDict) IN
                       IF block \in DOMAIN ss1[student_id]
                       THEN [assigned |-> FALSE, section |-> 0, sa |-> sa1, ss |-> ss1]
                       ELSE [assigned |-> TRUE,
                             section  |-> section_num,
                             sa |-> Put(sa1, section_key, Append(sa1[section_key], student_id)),
                             ss |-> Put(ss1, student_id,
                                        Put(ss1[student_id], block,
                                            CourseInfo(course_code, section_num)))]

\* the section scan of one request, from section_num on; sa is
\* section_assignments and ss is student_schedule, each of which gains a key
\* when it is first read
RECURSIVE ScanSections(_, _, _, _, _, _, _)
ScanSections(course_code, student_id, section_num, num_sections, max_size, sa, ss) ==
    IF section_num > num_sections
    THEN [assigned |-> FALSE, section |-> 0, sa |-> sa, ss |-> ss]
    ELSE LET section_key == SectionKey(course_code, section_num)
             block == Get(section_blocks, section_key, None)
         IN  IF block = None
             THEN ScanSections(course_code, student_id, section_num + 1, num_sections,
                               max_size, sa, ss)
             ELSE LET sa1 == Touch(sa, section_key, <<>>) IN
                  IF Len(sa1[section_key]) >= max_size
                  THEN ScanSections(course_code, student_id, section_num + 1, num_sections,
                                    max_size, sa1, ss)
                  ELSE LET ss1 == Touch(ss, student_id, EmptyDict) IN
                       IF block \in DOMAIN ss1[student_id]
                       THEN ScanSections(course_code, student_id, section_num + 1,
                                         num_sections, max_size, sa1, ss1)
                       ELSE [assigned |-> TRUE,
                             section  |-> section_num,
                             sa |-> Put(sa1, section_key, Append(sa1[section_key], student_id)),
                             ss |-> Put(ss1, student_id,
                                        Put(ss1[student_id], block,
                                            CourseInfo(course_code, section_num)))]

\* AttemptRequest that forgets the request when no section takes the student
AttemptRequest_DropsFailed(course_code, req, num_sections, max_size) ==
    LET student_id == Get(req, "student_ID", None)
        scan == ScanSections(course_code, student_id, 1, num_sections, max_size,
                             section_assignments, student_schedule)
        entry(assigned, section) ==
            [req |-> req, course_code |-> course_code, assigned |-> assigned,
             section |-> section, rosters |-> section_assignments,
             schedule |-> student_schedule]
    IN  IF student_id = None
        THEN /\ unresolved' = Append(unresolved, req)
             /\ attempts' = Append(attempts, entry(FALSE, 0))
             /\ UNCHANGED <<resolved, student_schedule, section_assignments>>
        ELSE /\ student_schedule' = scan.ss
             /\ section_assignments' = scan.sa
             /\ attempts' = Append(attempts, entry(scan.assigned, scan.section))
             /\ IF scan.assigned
                THEN /\ resolved' = Append(resolved, req)
                     /\ UNCHANGED unresolved
                ELSE UNCHANGED <<resolved, unresolved>>

\* AttemptRequest that scans the sections for a request without student id too
AttemptRequest_ScansAnonymous(course_code, req, num_sections, max_size) ==
    LET student_id == Get(req, "student_ID", None)
        scan == ScanSections(course_code, student_id, 1, num_sections, max_size,
                             section_assignments, student_schedule)
        entry(assigned, section) ==
            [req |-> req, course_code |-> course_code, assigned |-> assigned,
             section |-> section, rosters |-> section_assignments,
             schedule |-> student_schedule]
    IN  /\ student_schedule' = scan.ss
        /\ section_assignments' = scan.sa
        /\ attempts' = Append(attempts, entry(scan.assigned, scan.section))
        /\ IF scan.assigned
           THEN /\ resolved' = Append(resolved, req)
                /\ UNCHANGED unresolved
           ELSE /\ unresolved' = Append(unresolved, req)
                /\ UNCHANGED resolved

\* the body of `for req in requests` / `for req in type_requests`
AttemptRequest(course_code, req, num_sections, max_size) ==
    LET student_id == Get(req, "student_ID", None)
        scan == ScanSections(course_code, student_id, 1, num_sections, max_size,
                             section_assignments, student_schedule)
        entry(assigned, section) ==
            [req |-> req, course_code |-> course_code, assigned |-> assigned,
             section |-> section, rosters |-> section_assignments,
             schedule |-> student_schedule]
    IN  IF student_id = None
        THEN /\ unresolved' = Append(unresolved, req)
             /\ attempts' = Append(attempts, entry(FALSE, 0))
             /\ UNCHANGED <<resolved, student_schedule, section_assignments>>
        ELSE /\ student_schedule' = scan.ss
             /\ section_assignments' = scan.sa
             /\ attempts' = Append(attempts, entry(scan.assigned, scan.section))
             /\ IF scan.assigned
                THEN /\ resolved' = Append(resolved, req)
                     /\ UNCHANGED unresolved
                ELSE /\ unresolved' = Append(unresolved, req)
                     /\ UNCHANGED resolved

(***************************************************************************)
(* simple_scheduler.generate_schedule, Phase 2.                            *)
(***************************************************************************)
\* S_P2NextCourse that never reaches the return statement
S_P2NextCourse_NoReturn ==
    IF ci < Len(course_order)
    THEN /\ ci' = ci + 1
         /\ pc' = "p2_course"
    ELSE /\ ci' = ci
         /\ pc' = "p2_end"

\* S_P2NextCourse that runs Phase 1 for the next course only after the requests
\* of the course before it have been attempted
S_P2NextCourse_BackToPhase1 ==
    IF ci < Len(course_order)
    THEN /\ ci' = ci + 1
         /\ pc' = "p1_course"
    ELSE /\ ci' = ci
         /\ pc' = "done"

\* the course loop of Phase 2 moves on; after the last course the function returns
S_P2NextCourse ==
    IF ci < Len(course_order)
    THEN /\ ci' = ci + 1
         /\ pc' = "p2_course"
    ELSE /\ ci' = ci
         /\ pc' = "done"

\* one iteration of the second `for course_code, requests in course_requests.items()`,
\* up to the request loop: the requests are sorted in place
S_P2Course ==
    /\ impl = "simple_scheduler"
    /\ pc = "p2_course"
    /\ LET course_code == course_order[ci] IN
       IF course_code \notin DOMAIN course_details
       THEN /\ S_P2NextCourse
            /\ UNCHANGED <<course_requests, ri>>
       ELSE /\ course_requests' =
                  [course_requests EXCEPT ![course_code] = SortByPriority(@)]
            /\ ri' = 1
            /\ IF course_requests[course_code] # <<>>
               THEN /\ pc' = "p2_request"
                    /\ ci' = ci
               ELSE S_P2NextCourse
    /\ UNCHANGED <<data, first_run, impl, course_details, course_to_lecturer, student_schedule,
                   teacher_schedule, section_assignments, section_blocks, resolved,
                   unresolved, ti, si, assigned_blocks, attempts, sections_tried>>

\* one iteration of `for req in requests`
S_P2Request ==
    /\ impl = "simple_scheduler"
    /\ pc = "p2_request"
    /\ LET course_code == course_order[ci]
           course == course_details[course_code]
           requests == course_requests[course_code]
       IN  /\ AttemptRequest(course_code, requests[ri], course.num_sections, course.max_size)
           /\ IF ri < Len(requests)
              THEN /\ ri' = ri + 1
                   /\ UNCHANGED <<pc, ci>>
              ELSE /\ ri' = 1
                   /\ S_P2NextCourse
    /\ UNCHANGED <<data, first_run, impl, course_details, course_to_lecturer, course_requests,
                   teacher_schedule, section_blocks, ti, si, assigned_blocks,
                   sections_tried>>

(***************************************************************************)
(* milestone2.generate_schedule.                                           *)
(***************************************************************************)
\* course = course_details.get(course_code, {}) and the four course.get(...)
M_Course(course_code) == Get(course_details, course_code, EmptyDict)

M_NumSections(course_code) == Get(M_Course(course_code), "num_sections", DefaultNumSections)

M_MaxSize(course_code) == Get(M_Course(course_code), "max_size", DefaultMaxSize)

M_AvailableBlocks(course_code) == Get(M_Course(course_code), "available_blocks", all_blocks)

M_UnavailableBlocks(course_code) == Get(M_Course(course_code), "unavailable_blocks", {})

\* needed_sections = min(num_sections, (len(type_requests) + max_size - 1) // max_size)
M_NeededSections(course_code, type_requests) ==
    Min(M_NumSections(course_code),
        FloorDiv(Len(type_requests) + M_MaxSize(course_code) - 1, M_MaxSize(course_code)))

\* M_FindBlock without the check of the lecturer's schedule
RECURSIVE M_FindBlock_NoLecturerCheck(_, _, _, _, _, _)
M_FindBlock_NoLecturerCheck(course_code, section_num, available_blocks, unavailable_blocks, i, ts) ==
    IF i > Len(available_blocks) THEN [best_block |-> None, ts |-> ts]
    ELSE LET block == available_blocks[i] IN
         IF block \in unavailable_blocks \/ block \in assigned_blocks
         THEN M_FindBlock_NoLecturerCheck(course_code, section_num, available_blocks,
                                          unavailable_blocks, i + 1, ts)
         ELSE [best_block |-> block,
               ts |-> Touch(ts, LecturerOf(course_code, section_num), EmptyDict)]

\* the block scan of one section, from available_blocks[i] on
RECURSIVE M_FindBlock(_, _, _, _, _, _)
M_FindBlock(course_code, section_num, available_blocks, unavailable_blocks, i, ts) ==
    IF i > Len(available_blocks) THEN [best_block |-> None, ts |-> ts]
    ELSE LET block == available_blocks[i] IN
         IF block \in unavailable_blocks \/ block \in assigned_blocks
         THEN M_FindBlock(course_code, section_num, available_blocks, unavailable_blocks, i + 1, ts)
         ELSE LET lecturer_id == LecturerOf(course_code, section_num)
                  ts1 == Touch(ts, lecturer_id, EmptyDict)
              IN  IF block \in DOMAIN ts1[lecturer_id]
                  THEN M_FindBlock(course_code, section_num, available_blocks,
                                   unavailable_blocks, i + 1, ts1)
                  ELSE [best_block |-> block, ts |-> ts1]

\* the loops `for req_type in rules['priority_order']: for course_code, requests in ...`
\* of Phase 1 move on; after the last pass Phase 2 starts
M_P1NextCourse ==
    IF ci < Len(course_order)
    THEN /\ ci' = ci + 1
         /\ UNCHANGED ti
         /\ pc' = "p1_course"
    ELSE IF ti < Len(priority_order)
         THEN /\ ci' = 1
              /\ ti' = ti + 1
              /\ pc' = "p1_course"
         ELSE /\ ci' = 1
              /\ ti' = 1
              /\ pc' = "p2_course"

\* one iteration of the inner course loop of Phase 1, up to the section loop.
\* A ZeroDivisionError leaves the try block: Phase 1 ends there.
M_P1Course ==
    /\ impl = "milestone2"
    /\ pc = "p1_course"
    /\ LET course_code == course_order[ci]
           type_requests == TypeRequests(course_requests[course_code], priority_order[ti])
       IN  IF type_requests = <<>>
           THEN /\ M_P1NextCourse
                /\ UNCHANGED <<si, assigned_blocks>>
           ELSE IF M_MaxSize(course_code) = 0
           THEN /\ ci' = 1
                /\ ti' = 1
                /\ pc' = "p2_course"
                /\ UNCHANGED <<si, assigned_blocks>>
           ELSE /\ assigned_blocks' = {}
                /\ si' = 1
                /\ IF M_NeededSections(course_code, type_requests) >= 1
                   THEN /\ pc' = "p1_section"
                        /\ UNCHANGED <<ci, ti>>
                   ELSE M_P1NextCourse
    /\ UNCHANGED <<data, first_run, impl, course_details, course_to_lecturer, course_requests,
                   student_schedule, teacher_schedule, section_assignments,
                   section_blocks, resolved, unresolved, ri, attempts, sections_tried>>

\* one iteration of `for section_num in range(1, needed_sections + 1)`
M_P1Section ==
    /\ impl = "milestone2"
    /\ pc = "p1_section"
    /\ LET course_code == course_order[ci]
           type_requests == TypeRequests(course_requests[course_code], priority_order[ti])
           section_key == SectionKey(course_code, si)
           found == M_FindBlock(course_code, si, M_AvailableBlocks(course_code),
                                M_UnavailableBlocks(course_code), 1, teacher_schedule)
           best_block == found.best_block
           lecturer_id == LecturerOf(course_code, si)
       IN  /\ IF best_block # None
              THEN /\ assigned_blocks' = assigned_blocks \cup {best_block}
                   /\ section_blocks' = Put(section_blocks, section_key, best_block)
                   /\ teacher_schedule' =
                          Put(found.ts, lecturer_id,
                              Put(Touch(found.ts, lecturer_id, EmptyDict)[lecturer_id],
                                  best_block, CourseInfo(course_code, si)))
              ELSE /\ teacher_schedule' = found.ts
                   /\ UNCHANGED <<assigned_blocks, section_blocks>>
           /\ IF si < M_NeededSections(course_code, type_requests)
              THEN /\ si' = si + 1
                   /\ UNCHANGED <<pc, ci, ti>>
              ELSE /\ si' = 1
                   /\ M_P1NextCourse
    /\ UNCHANGED <<data, first_run, impl, course_details, course_to_lecturer, course_requests,
                   student_schedule, section_assignments, resolved, unresolved,
                   ri, attempts>>
    /\ sections_tried' = sections_tried \cup {<<course_order[ci], si>>}

\* the loops of Phase 2 move on; after the last pass the function returns
M_P2NextCourse ==
    IF ci < Len(course_order)
    THEN /\ ci' = ci + 1
         /\ UNCHANGED ti
         /\ pc' = "p2_course"
    ELSE IF ti < Len(priority_order)
         THEN /\ ci' = 1
              /\ ti' = ti + 1
              /\ pc' = "p2_course"
         ELSE /\ UNCHANGED <<ci, ti>>
              /\ pc' = "done"

\* one iteration of the inner course loop of Phase 2, up to the request loop
M_P2Course ==
    /\ impl = "milestone2"
    /\ pc = "p2_course"
    /\ LET course_code == course_order[ci]
           type_requests == TypeRequests(course_requests[course_code], priority_order[ti])
       IN  /\ ri' = 1
           /\ IF type_requests = <<>>
              THEN M_P2NextCourse
              ELSE /\ pc' = "p2_request"
                   /\ UNCHANGED <<ci, ti>>
    /\ UNCHANGED <<data, first_run, impl, course_details, course_to_lecturer, course_requests,
                   student_schedule, teacher_schedule, section_assignments,
                   section_blocks, resolved, unresolved, si, assigned_blocks, attempts,
                   sections_tried>>

\* one iteration of `for req in type_requests`
M_P2Request ==
    /\ impl = "milestone2"
    /\ pc = "p2_request"
    /\ LET course_code == course_order[ci]
           type_requests == TypeRequests(course_requests[course_code], priority_order[ti])
       IN  /\ AttemptRequest(course_code, type_requests[ri], M_NumSections(course_code),
                             M_MaxSize(course_code))
           /\ IF ri < Len(type_requests)
              THEN /\ ri' = ri + 1
                   /\ UNCHANGED <<pc, ci, ti>>
              ELSE /\ ri' = 1
                   /\ M_P2NextCourse
    /\ UNCHANGED <<data, first_run, impl, course_details, course_to_lecturer, course_requests,
                   teacher_schedule, section_blocks, si, assigned_blocks,
                   sections_tried>>

(***************************************************************************)
(* The specification: one run of either implementation.                    *)
(***************************************************************************)
Next ==
    \/ S_P1Course
    \/ S_P1Section
    \/ S_P2Course
    \/ S_P2Request
    \/ M_P1Course
    \/ M_P1Section
    \/ M_P2Course
    \/ M_P2Request

Spec == Init /\ [][Next]_vars

\* every loop of generate_schedule runs on: the interpreter takes the next step
\* as long as there is one
FairSpec == Spec /\ WF_vars(Next)

(***************************************************************************)
(* A second call of generate_schedule on the same preprocessed dict, whose *)
(* request lists the first call of simple_scheduler has sorted in place.   *)
(***************************************************************************)
\* the state generate_schedule returns, with the section-block bindings
Outputs ==
    [student_schedule |-> student_schedule, teacher_schedule |-> teacher_schedule,
     resolved |-> resolved, unresolved |-> unresolved,
     section_assignments |-> section_assignments, section_blocks |-> section_blocks]

\* the first call has returned; generate_schedule is called again
Rerun ==
    /\ pc = "done"
    /\ first_run = <<>>
    /\ first_run' = <<Outputs>>
    /\ student_schedule' = EmptyDict
    /\ teacher_schedule' = EmptyDict
    /\ section_assignments' = EmptyDict
    /\ section_blocks' = EmptyDict
    /\ resolved' = <<>>
    /\ unresolved' = <<>>
    /\ pc' = "p1_course"
    /\ ti' = 1
    /\ ci' = 1
    /\ si' = 1
    /\ ri' = 1
    /\ assigned_blocks' = {}
    /\ attempts' = <<>>
    /\ sections_tried' = {}
    /\ UNCHANGED <<data, impl, course_details, course_to_lecturer, course_requests>>

RerunNext ==
    \/ Next
    \/ Rerun

RerunSpec == Init /\ [][RerunNext]_vars

(***************************************************************************)
(* preprocess_data, and the pipeline preprocess_data; generate_schedule of *)
(* main().  The rows of data keep the fields generate_schedule reads.      *)
(***************************************************************************)
MaxRows == 3

ListingRow(course_code, section, lecturer_id) ==
    [lecture_Code |-> course_code, Section_number |-> section, Lecturer_ID |-> lecturer_id]

CharacteristicsRow(course_code, n, m, available, unavailable) ==
    [Course_code |-> course_code, Number_of_sections |-> n, Maximum_section_size |-> m,
     Available_blocks |-> available, Unavailable_blocks |-> unavailable]

RequestRow(course_code, student_id, type) ==
    [Course_code |-> course_code, student_ID |-> student_id, Type |-> type]

\* data['course_listings']: none; one lecturer for the first sections of both
\* courses (the second row without section number); a row without lecturer
ListingChoices ==
    {<<>>,
     <<ListingRow(course_order[1], 1, "L1"),
       [lecture_Code |-> course_order[2], Lecturer_ID |-> "L1"]>>,
     <<[lecture_Code |-> course_order[1], Section_number |-> 1]>>}

\* data['course_characteristics']: both courses; a course with its code alone;
\* a row without course code
CharacteristicsChoices ==
    {<<CharacteristicsRow(course_order[1], 1, 1, <<"1A", "1B">>, {}),
       CharacteristicsRow(course_order[2], 1, 1, <<"1A", "1B">>, {})>>,
     <<CharacteristicsRow(course_order[1], 2, 1, <<"1A", "1B">>, {}),
       [Course_code |-> course_order[2]]>>,
     <<[Number_of_sections |-> 2],
       CharacteristicsRow(course_order[2], 1, 2, <<"1A">>, {})>>}

\* a request row names a course, has an empty course code or has none
RequestRows ==
    {RequestRow(c, s, t) : c \in {course_order[1], course_order[2], ""},
                           s \in Students, t \in {"Required", "Recommended"}}
        \cup {[student_ID |-> "S1", Type |-> "Required"]}

\* the course codes of the rows, in the order of their first request
RECURSIVE FirstSeen(_)
FirstSeen(rows) ==
    IF rows = <<>> THEN <<>>
    ELSE LET seen == FirstSeen(SubSeq(rows, 1, Len(rows) - 1))
             course_code == Get(rows[Len(rows)], "Course_code", None)
         IN  IF course_code = None \/ InList(course_code, seen)
             THEN seen ELSE Append(seen, course_code)

\* data['student_requests']: the courses are named in the order of their first
\* request, which is the iteration order of course_requests.items()
RequestRowLists ==
    {rows \in UNION {[1..n -> RequestRows] : n \in 2..MaxRows} :
        FirstSeen(rows) = course_order}

\* course_to_lecturer of preprocess_data
RECURSIVE LecturerIndex(_)
LecturerIndex(rows) ==
    IF rows = <<>> THEN EmptyDict
    ELSE LET index == LecturerIndex(SubSeq(rows, 1, Len(rows) - 1))
             course == rows[Len(rows)]
             lecturer_id == Get(course, "Lecturer_ID", None)
             course_code == Get(course, "lecture_Code", None)
             section == Get(course, "Section_number", 1)
         IN  IF course_code # None /\ lecturer_id # None
             THEN Put(index, SectionKey(course_code, section), lecturer_id)
             ELSE index

\* course.get('Available blocks', ...): simple_scheduler defaults to [],
\* milestone2 to every block; the rows give a list when they have the key
AvailableBlocksOf(course) ==
    IF impl = "simple_scheduler"
    THEN Get(course, "Available_blocks", <<>>)
    ELSE Get(course, "Available_blocks", all_blocks)

\* course.get('Unavailable blocks', []); the list is used for membership only
UnavailableBlocksOf(course) == Get(course, "Unavailable_blocks", {})

\* course_details of preprocess_data
RECURSIVE CourseIndex(_)
CourseIndex(rows) ==
    IF rows = <<>> THEN EmptyDict
    ELSE LET index == CourseIndex(SubSeq(rows, 1, Len(rows) - 1))
             course == rows[Len(rows)]
             course_code == Get(course, "Course_code", None)
         IN  IF course_code # None
             THEN Put(index, course_code,
                      Course(Get(course, "Number_of_sections", DefaultNumSections),
                             Get(course, "Maximum_section_size", DefaultMaxSize),
                             AvailableBlocksOf(course), UnavailableBlocksOf(course)))
             ELSE index

\* course_requests of preprocess_data: the requests with a course code, grouped
\* by it in input order; milestone2 then sorts each list by priority
GroupedRequests(rows) ==
    LET grouped == [c \in Range(FirstSeen(rows)) |->
                       SelectSeq(rows, LAMBDA req : Get(req, "Course_code", None) = c)]
    IN  IF impl = "milestone2"
        THEN [c \in DOMAIN grouped |-> SortByPriority(grouped[c])]
        ELSE grouped

\* main() starts: the indices do not exist yet
PipelineInit ==
    /\ impl \in Implementations
    /\ \E listings \in ListingChoices, characteristics \in CharacteristicsChoices,
          requests \in RequestRowLists :
          data = <<[course_listings |-> listings,
                    course_characteristics |-> characteristics,
                    student_requests |-> WithRid(requests, 0)]>>
    /\ first_run = <<>>
    /\ course_details = EmptyDict
    /\ course_to_lecturer = EmptyDict
    /\ course_requests = EmptyDict
    /\ student_schedule = EmptyDict
    /\ teacher_schedule = EmptyDict
    /\ section_assignments = EmptyDict
    /\ section_blocks = EmptyDict
    /\ resolved = <<>>
    /\ unresolved = <<>>
    /\ pc = "preprocess"
    /\ ti = 1
    /\ ci = 1
    /\ si = 1
    /\ ri = 1
    /\ assigned_blocks = {}
    /\ attempts = <<>>
    /\ sections_tried = {}

\* preprocess_data(data, rules), whose result generate_schedule receives
Preprocess ==
    /\ pc = "preprocess"
    /\ course_to_lecturer' = LecturerIndex(data[1].course_listings)
    /\ course_details' = CourseIndex(data[1].course_characteristics)
    /\ course_requests' = GroupedRequests(data[1].student_requests)
    /\ pc' = "p1_course"
    /\ UNCHANGED <<data, first_run, impl, student_schedule, teacher_schedule,
                   section_assignments, section_blocks, resolved, unresolved,
                   ti, ci, si, ri, assigned_blocks, attempts, sections_tried>>

PipelineNext ==
    \/ Preprocess
    \/ Next

PipelineSpec == PipelineInit /\ [][PipelineNext]_vars

(***************************************************************************)
(* Vocabulary of the properties.                                           *)
(***************************************************************************)
Codes == {course_order[i] : i \in 1..Len(course_order)}

Count(list, x) == Cardinality({i \in 1..Len(list) : list[i] = x})

AllRequests == UNION {Range(course_requests[c]) : c \in Codes}

Simple == impl = "simple_scheduler"

Milestone2 == impl = "milestone2"

Done == pc = "done"

Phase2 == pc \in {"p2_course", "p2_request", "done"}

\* the sections of a course as Phase 2 scans them, and the capacity it applies
NumSectionsOf(c) ==
    IF Simple THEN course_details[c].num_sections ELSE M_NumSections(c)

MaxSizeOf(c) == IF Simple THEN course_details[c].max_size ELSE M_MaxSize(c)

\* courses whose requests Phase 2 scans sections for
Scanned(c) == Milestone2 \/ c \in DOMAIN course_details

Bound(c, n) == SectionKey(c, n) \in DOMAIN section_blocks

BlockOf(c, n) == section_blocks[SectionKey(c, n)]

Roster(sa, c, n) == Get(sa, SectionKey(c, n), <<>>)

HasStudent(req) == Get(req, "student_ID", None) # None

TypeOf(req) == Get(req, "Type", None)

\* an attempt that resolved its request
Resolved(a) == a.assigned

\* the student of attempt a occupied block b when a was made
OccupiedAt(a, b) ==
    b \in DOMAIN Get(a.schedule, a.req.student_ID, EmptyDict)

\* section n of a's course was full when a was made
FullAt(a, n) == Len(Roster(a.rosters, a.course_code, n)) >= MaxSizeOf(a.course_code)

(***************************************************************************)
(* C1: in both implementations, at every point of Phase 2, no two resolved *)
(* requests of one student are on the same block, the student's schedule   *)
(* names for that block the section the request was resolved into, and an  *)
(* entry of a student schedule, once written, is never overwritten.        *)
(***************************************************************************)
C1_OneSectionPerBlock ==
    /\ \A i \in 1..Len(attempts) :
          Resolved(attempts[i]) =>
              LET a == attempts[i]
                  b == BlockOf(a.course_code, a.section)
              IN  /\ a.req.student_ID \in DOMAIN student_schedule
                  /\ b \in DOMAIN student_schedule[a.req.student_ID]
                  /\ student_schedule[a.req.student_ID][b] =
                         CourseInfo(a.course_code, a.section)
    /\ \A i, j \in 1..Len(attempts) :
          (/\ i # j
           /\ Resolved(attempts[i])
           /\ Resolved(attempts[j])
           /\ attempts[i].req.student_ID = attempts[j].req.student_ID)
          => BlockOf(attempts[i].course_code, attempts[i].section)
                 # BlockOf(attempts[j].course_code, attempts[j].section)

C1_NeverOverwritten ==
    \A s \in DOMAIN student_schedule :
        /\ s \in DOMAIN student_schedule'
        /\ \A b \in DOMAIN student_schedule[s] :
              /\ b \in DOMAIN student_schedule'[s]
              /\ student_schedule'[s][b] = student_schedule[s][b]

C1_StudentNoDoubleBooking == [](C1_OneSectionPerBlock) /\ [][C1_NeverOverwritten]_vars

\* a request was refused a bound section with a free seat because its student
\* already occupied the block, and the student ends with two blocks
C1_Witness ==
    \E i \in 1..Len(attempts) :
        LET a == attempts[i] IN
        /\ HasStudent(a.req)
        /\ Scanned(a.course_code)
        /\ \E n \in 1..NumSectionsOf(a.course_code) :
              /\ Bound(a.course_code, n)
              /\ ~FullAt(a, n)
              /\ OccupiedAt(a, BlockOf(a.course_code, n))
        /\ Cardinality(DOMAIN student_schedule[a.req.student_ID]) = 2

(***************************************************************************)
(* C2: in both implementations, at the end of the run, two distinct bound  *)
(* sections that resolve to the same lecturer id (a recorded id or the     *)
(* placeholder unknown_<course_code>) are bound to different blocks.       *)
(***************************************************************************)
Sections == Codes \X (1..MaxSections)

C2_LecturerNoDoubleBooking ==
    Done =>
        \A k1, k2 \in Sections :
            (/\ k1 # k2
             /\ Bound(k1[1], k1[2])
             /\ Bound(k2[1], k2[2])
             /\ LecturerOf(k1[1], k1[2]) = LecturerOf(k2[1], k2[2]))
            => BlockOf(k1[1], k1[2]) # BlockOf(k2[1], k2[2])

\* two sections of different courses with one recorded lecturer are both
\* bound, and the second course could have used the block of the first
C2_Witness ==
    /\ Done
    /\ LecturerOf(course_order[1], 1) = LecturerOf(course_order[2], 1)
    /\ Bound(course_order[1], 1)
    /\ Bound(course_order[2], 1)
    /\ Codes \subseteq DOMAIN course_details
    /\ InList(BlockOf(course_order[1], 1), course_details[course_order[2]].available_blocks)
    /\ BlockOf(course_order[1], 1) \notin course_details[course_order[2]].unavailable_blocks

(***************************************************************************)
(* C3: in both implementations, for every course with a non-negative       *)
(* max_size, the roster of each of its sections has at most max_size       *)
(* students in every state of the run (so after every student assignment   *)
(* of Phase 2 and at the end).                                             *)
(***************************************************************************)
C3_CapacityBound ==
    \A k \in Sections :
        (Scanned(k[1]) /\ MaxSizeOf(k[1]) >= 0)
        => Len(Roster(section_assignments, k[1], k[2])) <= MaxSizeOf(k[1])

\* a request with a student id met a section that was bound and full
C3_Witness ==
    \E i \in 1..Len(attempts) :
        LET a == attempts[i] IN
        /\ HasStudent(a.req)
        /\ Scanned(a.course_code)
        /\ MaxSizeOf(a.course_code) >= 1
        /\ \E n \in 1..NumSectionsOf(a.course_code) :
              /\ Bound(a.course_code, n)
              /\ FullAt(a, n)
              /\ ~OccupiedAt(a, BlockOf(a.course_code, n))

(***************************************************************************)
(* C4: in simple_scheduler, at the end of the run, every request of the    *)
(* course_requests index (known or unknown course, with or without student *)
(* id, any Type) appears exactly once in resolved + unresolved, and those  *)
(* lists hold nothing else.                                                *)
(***************************************************************************)
C4_SimplePartition ==
    (Simple /\ Done) =>
        /\ \A r \in AllRequests : Count(resolved \o unresolved, r) = 1
        /\ Range(resolved \o unresolved) \subseteq AllRequests

\* a finished run with a request of an unknown course, a resolved request and
\* a request without student id
C4_Witness ==
    /\ Simple
    /\ Done
    /\ \E c \in Codes : c \notin DOMAIN course_details /\ course_requests[c] # <<>>
    /\ resolved # <<>>
    /\ \E i \in 1..Len(attempts) : ~HasStudent(attempts[i].req)

(***************************************************************************)
(* C5: in milestone2, at the end of the run, every request of the          *)
(* course_requests index, whatever its Type field (Required, Requested,    *)
(* Recommended, missing, or any other value), appears exactly once in      *)
(* resolved + unresolved.                                                  *)
(***************************************************************************)
C5_Milestone2Partition ==
    (Milestone2 /\ Done) =>
        \A r \in AllRequests : Count(resolved \o unresolved, r) = 1

(***************************************************************************)
(* C6: in Phase 2 of milestone2, every Required request of every course is *)
(* attempted before any Requested request of any course, and every         *)
(* Requested request before any Recommended request.                       *)
(***************************************************************************)
\* every request of type `earlier` was attempted before attempt j
AttemptedBefore(earlier, j) ==
    \A r \in AllRequests :
        TypeOf(r) = earlier => \E i \in 1..(j - 1) : attempts[i].req = r

C6_TierOrder ==
    Milestone2 =>
        \A j \in 1..Len(attempts) :
            /\ TypeOf(attempts[j].req) = "Requested" => AttemptedBefore("Required", j)
            /\ TypeOf(attempts[j].req) = "Recommended" =>
                   AttemptedBefore("Required", j) /\ AttemptedBefore("Requested", j)

\* a Required request of the second course, then a Requested request of the
\* first course, then a Recommended request have been attempted
C6_Witness ==
    /\ Milestone2
    /\ \E i, j, k \in 1..Len(attempts) :
          /\ i < j
          /\ j < k
          /\ TypeOf(attempts[i].req) = "Required"
          /\ attempts[i].course_code = course_order[2]
          /\ TypeOf(attempts[j].req) = "Requested"
          /\ attempts[j].course_code = course_order[1]
          /\ TypeOf(attempts[k].req) = "Recommended"

(***************************************************************************)
(* C7: in Phase 2 of simple_scheduler, every Required request of every     *)
(* course is attempted before any Requested or Recommended request of any  *)
(* course, so that no student's block is taken by a lower-tier request of  *)
(* one course before that student's Required request for another course    *)
(* has been attempted.                                                     *)
(***************************************************************************)
LowerTier(req) == TypeOf(req) \in {"Requested", "Recommended"}

C7_SimpleRequiredFirst ==
    Simple =>
        \A j \in 1..Len(attempts) :
            LowerTier(attempts[j].req) =>
                \A c \in Codes \cap DOMAIN course_details :
                    \A r \in Range(course_requests[c]) :
                        TypeOf(r) = "Required" => \E i \in 1..(j - 1) : attempts[i].req = r

(***************************************************************************)
(* C8: in both implementations, within one course: when a Required request *)
(* with a student id ends unresolved, every Recommended request of that    *)
(* course that is resolved is resolved after the Required request was      *)
(* attempted, into a section that at that moment was full or on a block    *)
(* the Required request's student occupied.                                *)
(***************************************************************************)
C8_PriorityPrecedence ==
    \A i, j \in 1..Len(attempts) :
        LET a == attempts[i]
            b == attempts[j]
        IN  (/\ TypeOf(a.req) = "Required"
             /\ HasStudent(a.req)
             /\ ~Resolved(a)
             /\ b.course_code = a.course_code
             /\ TypeOf(b.req) = "Recommended"
             /\ Resolved(b))
            => /\ i < j
               /\ \/ FullAt(a, b.section)
                  \/ OccupiedAt(a, BlockOf(b.course_code, b.section))

\* a Required request with a student id is unresolved and a Recommended
\* request of the same course is resolved
C8_Witness ==
    \E i, j \in 1..Len(attempts) :
        /\ TypeOf(attempts[i].req) = "Required"
        /\ HasStudent(attempts[i].req)
        /\ ~Resolved(attempts[i])
        /\ attempts[j].course_code = attempts[i].course_code
        /\ TypeOf(attempts[j].req) = "Recommended"
        /\ Resolved(attempts[j])

(***************************************************************************)
(* C9: in milestone2, once a section has been bound to a block, no later   *)
(* step binds it to a different block, the Phase 1 passes for later        *)
(* priority tiers over the same course included.                           *)
(***************************************************************************)
C9_BlockImmutable ==
    [][Milestone2 =>
          \A k \in DOMAIN section_blocks :
              /\ k \in DOMAIN section_blocks'
              /\ section_blocks'[k] = section_blocks[k]]_vars

(***************************************************************************)
(* C10: in simple_scheduler, for a course code that has requests and no    *)
(* course record: no request of it is ever resolved, no section of it is   *)
(* ever bound to a block, no lecturer-schedule, student-schedule or roster *)
(* entry is ever created for it, and from the end of Phase 1 on each of    *)
(* its requests is in unresolved (once).                                   *)
(***************************************************************************)
Entries(schedule) == UNION {{schedule[k][b] : b \in DOMAIN schedule[k]} : k \in DOMAIN schedule}

C10_SimpleUnknownCourse ==
    Simple =>
        \A c \in Codes \ DOMAIN course_details :
            /\ \A r \in Range(course_requests[c]) :
                  /\ Count(resolved, r) = 0
                  /\ Phase2 => Count(unresolved, r) = 1
            /\ \A n \in 1..MaxSections :
                  /\ SectionKey(c, n) \notin DOMAIN section_blocks
                  /\ SectionKey(c, n) \notin DOMAIN section_assignments
                  /\ CourseInfo(c, n) \notin Entries(teacher_schedule)
                  /\ CourseInfo(c, n) \notin Entries(student_schedule)
            /\ ("unknown_" \o c) \notin DOMAIN teacher_schedule

\* a finished run in which an unknown course has a request with a student id
\* and a lecturer on record, and the other course has a resolved request
C10_Witness ==
    /\ Simple
    /\ Done
    /\ resolved # <<>>
    /\ \E c \in Codes \ DOMAIN course_details :
          /\ \E r \in Range(course_requests[c]) : HasStudent(r)
          /\ SectionKey(c, 1) \in DOMAIN course_to_lecturer

(***************************************************************************)
(* C11: in milestone2, for a course code that has requests and no course   *)
(* record: no section of it is ever bound to a block or given a roster,    *)
(* none of its requests is ever resolved, and at the end of the run each   *)
(* of its requests is in unresolved.                                       *)
(***************************************************************************)
C11_Milestone2UnknownCourse ==
    Milestone2 =>
        \A c \in Codes \ DOMAIN course_details :
            /\ \A r \in Range(course_requests[c]) :
                  /\ Count(resolved, r) = 0
                  /\ Done => Count(unresolved, r) = 1
            /\ \A n \in 1..MaxSections :
                  /\ SectionKey(c, n) \notin DOMAIN section_blocks
                  /\ SectionKey(c, n) \notin DOMAIN section_assignments

(***************************************************************************)
(* C12: in both implementations, the step of the request loop that handles *)
(* a request without student id appends that request to unresolved and     *)
(* leaves every student schedule, every roster (no section is scanned, so  *)
(* no roster or schedule key is created either) and resolved unchanged.    *)
(***************************************************************************)
C12_MissingStudent ==
    [][(/\ Len(attempts') = Len(attempts) + 1
        /\ ~HasStudent(attempts'[Len(attempts')].req))
       => /\ unresolved' = Append(unresolved, attempts'[Len(attempts')].req)
          /\ student_schedule' = student_schedule
          /\ section_assignments' = section_assignments
          /\ resolved' = resolved]_vars

\* a request without student id was handled when a bound section of its
\* course had a free seat, after another request had been resolved
C12_Witness ==
    \E i \in 1..Len(attempts) :
        LET a == attempts[i] IN
        /\ ~HasStudent(a.req)
        /\ Scanned(a.course_code)
        /\ \E n \in 1..NumSectionsOf(a.course_code) :
              Bound(a.course_code, n) /\ ~FullAt(a, n)
        /\ a.rosters # EmptyDict
        /\ a.req \in Range(unresolved)

(***************************************************************************)
(* C13: for the pipeline preprocess_data; generate_schedule of both        *)
(* implementations, at the end of the run every request of the input       *)
(* student_requests list whose course code is missing or empty is in       *)
(* unresolved.                                                             *)
(***************************************************************************)
C13_MalformedCourseUnresolved ==
    (Done /\ data # <<>>) =>
        \A req \in Range(data[1].student_requests) :
            Get(req, "Course_code", None) = None => req \in Range(unresolved)

C15_Terminates == <>Done

\* a call has returned after binding two sections, resolving a request and
\* refusing another
C15_Witness ==
    /\ Done
    /\ Cardinality(DOMAIN section_blocks) >= 2
    /\ resolved # <<>>
    /\ unresolved # <<>>

(***************************************************************************)
(* C16: in both implementations, for a single course with N sections of    *)
(* capacity m, all bound to distinct blocks, and k > N*m requests of one   *)
(* tier from distinct students (no other course has requests): at the end  *)
(* section i holds exactly the students of the requests at positions       *)
(* (i-1)*m+1 .. i*m, in order, the first N*m requests are resolved and the *)
(* remaining k - N*m requests are unresolved.                              *)
(***************************************************************************)
\* course c alone has requests: more than its seats, of one tier, from distinct students
Overbooked(c) ==
    LET requests == course_requests[c] IN
    /\ Scanned(c)
    /\ \A d \in Codes \ {c} : course_requests[d] = <<>>
    /\ MaxSizeOf(c) >= 0
    /\ Len(requests) > NumSectionsOf(c) * MaxSizeOf(c)
    /\ \A n \in 1..NumSectionsOf(c) : Bound(c, n)
    /\ \A n1, n2 \in 1..NumSectionsOf(c) : n1 # n2 => BlockOf(c, n1) # BlockOf(c, n2)
    /\ \A i \in 1..Len(requests) :
          /\ HasStudent(requests[i])
          /\ InList(TypeOf(requests[i]), priority_order)
          /\ TypeOf(requests[i]) = TypeOf(requests[1])
    /\ \A i, j \in 1..Len(requests) :
          i # j => requests[i].student_ID # requests[j].student_ID

C17_EligibleEqualsExcluded ==
    \A c \in Codes \cap DOMAIN course_details :
        Range(course_details[c].available_blocks) = course_details[c].unavailable_blocks
        => /\ \A n \in 1..MaxSections : ~Bound(c, n)
           /\ \A r \in Range(course_requests[c]) :
                 /\ Count(resolved, r) = 0
                 /\ (Done /\ InList(TypeOf(r), priority_order)) => Count(unresolved, r) = 1

(***************************************************************************)
(* C18: in both implementations, for two sections of different courses     *)
(* that are mapped to the same lecturer id, where each course's eligible   *)
(* blocks are the same single block b (excluded by neither): the one that  *)
(* Phase 1 processes while the other is unbound is bound to b and stays    *)
(* so, the two are never both bound, and when the other course has no      *)
(* further section none of its requests is resolved and each of its        *)
(* requests of one of the three tiers ends in unresolved.                  *)
(***************************************************************************)
\* the different courses c1 and c2 have the single eligible block b
OneBlock(c1, c2, b) ==
    /\ c1 # c2
    /\ \A c \in {c1, c2} :
          /\ course_details[c].available_blocks = <<b>>
          /\ b \notin course_details[c].unavailable_blocks

\* section n1 of c1 and section n2 of c2 are mapped to the same lecturer id
SharedLecturer(c1, n1, c2, n2) ==
    /\ {SectionKey(c1, n1), SectionKey(c2, n2)} \subseteq DOMAIN course_to_lecturer
    /\ LecturerOf(c1, n1) = LecturerOf(c2, n2)

C18_OnlyOneBinds ==
    \A c1, c2 \in Codes \cap DOMAIN course_details : \A b \in Range(all_blocks) :
        OneBlock(c1, c2, b) =>
            \A n1, n2 \in 1..MaxSections :
                (SharedLecturer(c1, n1, c2, n2) /\ Bound(c1, n1))
                => /\ ~Bound(c2, n2)
                   /\ Roster(section_assignments, c2, n2) = <<>>
                   /\ NumSectionsOf(c2) = 1 =>
                         \A r \in Range(course_requests[c2]) :
                             /\ Count(resolved, r) = 0
                             /\ (Done /\ InList(TypeOf(r), priority_order))
                                    => Count(unresolved, r) = 1

C18_FirstProcessedBinds ==
    \A c1, c2 \in Codes \cap DOMAIN course_details : \A b \in Range(all_blocks) :
        OneBlock(c1, c2, b) =>
            \A n1, n2 \in 1..MaxSections :
                SharedLecturer(c1, n1, c2, n2) =>
                    /\ (/\ pc = "p1_section"
                        /\ c1 = course_order[ci]
                        /\ n1 = si
                        /\ b \notin assigned_blocks
                        /\ ~Bound(c2, n2))
                       => SectionKey(c1, n1) \in DOMAIN section_blocks'
                    /\ Bound(c1, n1) =>
                          /\ SectionKey(c1, n1) \in DOMAIN section_blocks'
                          /\ section_blocks'[SectionKey(c1, n1)] = b

C18_SharedLecturerConflict == [](C18_OnlyOneBinds) /\ [][C18_FirstProcessedBinds]_vars

\* a finished run in which one of two such sections is bound and the only
\* section of the other course refused a request that has a student id
C18_Witness ==
    /\ Done
    /\ \E c1, c2 \in Codes \cap DOMAIN course_details : \E b \in Range(all_blocks) :
          /\ OneBlock(c1, c2, b)
          /\ \E n1, n2 \in 1..MaxSections :
                SharedLecturer(c1, n1, c2, n2) /\ Bound(c1, n1)
          /\ NumSectionsOf(c2) = 1
          /\ MaxSizeOf(c2) >= 1
          /\ \E i \in 1..Len(attempts) :
                /\ attempts[i].course_code = c2
                /\ HasStudent(attempts[i].req)
                /\ attempts[i].req \in Range(unresolved)

(***************************************************************************)
(* C19: in Phase 1 of simple_scheduler, the step that processes a section  *)
(* binds it to the earliest block of all_blocks that is in the course's    *)
(* eligible set, not in its excluded set, not bound to an earlier section  *)
(* of the same course and not occupied in the lecturer's schedule at that  *)
(* moment; the section stays unbound exactly when there is no such block.  *)
(***************************************************************************)
\* the positions in all_blocks of the blocks that satisfy the four conditions
\* for section n of course c in the current state
Candidates(c, n) ==
    {i \in 1..Len(all_blocks) :
        /\ InList(all_blocks[i], course_details[c].available_blocks)
        /\ all_blocks[i] \notin course_details[c].unavailable_blocks
        /\ \A e \in 1..(n - 1) : Bound(c, e) => BlockOf(c, e) # all_blocks[i]
        /\ all_blocks[i] \notin DOMAIN Get(teacher_schedule, LecturerOf(c, n), EmptyDict)}

\* the earliest of them
FirstFit(c, n) ==
    all_blocks[CHOOSE i \in Candidates(c, n) : \A j \in Candidates(c, n) : i <= j]

C19_SimpleFirstFit ==
    [][(Simple /\ pc = "p1_section") =>
          LET c == course_order[ci]
              section_key == SectionKey(c, si)
          IN  IF Candidates(c, si) = {}
              THEN section_key \notin DOMAIN section_blocks'
              ELSE /\ section_key \in DOMAIN section_blocks'
                   /\ section_blocks'[section_key] = FirstFit(c, si)]_vars

(***************************************************************************)
(* C20: in Phase 1 of milestone2, the step that processes a section binds  *)
(* it to the earliest block of all_blocks that is eligible for the course, *)
(* not excluded, not claimed by an earlier section of the course in this   *)
(* pass and free for the section's lecturer, whatever the order of the     *)
(* course's own list of eligible blocks; without such a block the step     *)
(* binds nothing.                                                          *)
(***************************************************************************)
M_Candidates(c, n) ==
    {i \in 1..Len(all_blocks) :
        /\ InList(all_blocks[i], M_AvailableBlocks(c))
        /\ all_blocks[i] \notin M_UnavailableBlocks(c)
        /\ all_blocks[i] \notin assigned_blocks
        /\ all_blocks[i] \notin DOMAIN Get(teacher_schedule, LecturerOf(c, n), EmptyDict)}

M_FirstFit(c, n) ==
    all_blocks[CHOOSE i \in M_Candidates(c, n) : \A j \in M_Candidates(c, n) : i <= j]

C20_Milestone2FirstFit ==
    [][(Milestone2 /\ pc = "p1_section") =>
          LET c == course_order[ci]
              section_key == SectionKey(c, si)
          IN  IF M_Candidates(c, si) = {}
              THEN section_blocks' = section_blocks
              ELSE /\ section_key \in DOMAIN section_blocks'
                   /\ section_blocks'[section_key] = M_FirstFit(c, si)]_vars

(***************************************************************************)
(* C21: in Phase 2 of both implementations, the step that handles a        *)
(* request with a student id resolves it into the lowest-indexed section   *)
(* of its course that at that moment is bound, has fewer than max_size     *)
(* students and is on a block the student does not occupy; the step adds   *)
(* the student to that roster and that block of the student's schedule and *)
(* changes no other roster or schedule entry; the request goes to          *)
(* unresolved, with no roster or schedule entry changed, exactly when no   *)
(* section of the course qualifies.                                        *)
(***************************************************************************)
\* section n of a's course could take a's student when a was made
QualifiesAt(a, n) ==
    /\ Bound(a.course_code, n)
    /\ ~FullAt(a, n)
    /\ ~OccupiedAt(a, BlockOf(a.course_code, n))

Qualifying(a) == {n \in 1..NumSectionsOf(a.course_code) : QualifiesAt(a, n)}

\* the rosters and the student schedules after the step are those before it
\* with (when n > 0) a's student added to section n of a's course
AddsOnly(a, n) ==
    LET c == a.course_code
        s == a.req.student_ID
    IN  /\ \A k \in DOMAIN section_assignments \cup DOMAIN section_assignments' :
              Get(section_assignments', k, <<>>) =
                 IF n > 0 /\ k = SectionKey(c, n)
                 THEN Append(Get(section_assignments, k, <<>>), s)
                 ELSE Get(section_assignments, k, <<>>)
        /\ \A t \in DOMAIN student_schedule \cup DOMAIN student_schedule' :
              Get(student_schedule', t, EmptyDict) =
                 IF n > 0 /\ t = s
                 THEN Put(Get(student_schedule, t, EmptyDict), BlockOf(c, n),
                          CourseInfo(c, n))
                 ELSE Get(student_schedule, t, EmptyDict)

C21_LowestQualifyingSection ==
    [][(/\ Len(attempts') = Len(attempts) + 1
        /\ HasStudent(attempts'[Len(attempts')].req))
       => LET a == attempts'[Len(attempts')]
              Q == Qualifying(a)
          IN  IF Q = {}
              THEN /\ ~a.assigned
                   /\ unresolved' = Append(unresolved, a.req)
                   /\ resolved' = resolved
                   /\ AddsOnly(a, 0)
              ELSE LET n == CHOOSE m \in Q : \A o \in Q : m <= o IN
                   /\ a.assigned
                   /\ a.section = n
                   /\ resolved' = Append(resolved, a.req)
                   /\ unresolved' = unresolved
                   /\ AddsOnly(a, n)]_vars

\* a request was resolved into section 2 while section 1 of its course was
\* bound but full or on a block the student occupied
C21_Witness ==
    \E i \in 1..Len(attempts) :
        LET a == attempts[i] IN
        /\ HasStudent(a.req)
        /\ a.assigned
        /\ a.section = 2
        /\ Bound(a.course_code, 1)
        /\ a.req.student_ID \in Range(Roster(section_assignments, a.course_code, 2))

(***************************************************************************)
(* C22: in milestone2, at the end of Phase 1 (and so in every state of     *)
(* Phase 2) no two distinct sections of the same course are bound to the   *)
(* same block.                                                             *)
(***************************************************************************)
C22_DistinctBlocksPerCourse ==
    (Milestone2 /\ Phase2) =>
        \A c \in Codes :
            \A n1, n2 \in 1..M_NumSections(c) :
                (n1 # n2 /\ Bound(c, n1) /\ Bound(c, n2))
                => BlockOf(c, n1) # BlockOf(c, n2)

(***************************************************************************)
(* C23: in milestone2, when no course has a max_size below 1, the sections *)
(* of a course that Phase 1 has tried to bind by the time Phase 2 starts   *)
(* are exactly 1 .. min(N, ceil(D / max_size)), with N the declared        *)
(* section count and D the number of requests of the course over the three *)
(* priority tiers together.                                                *)
(***************************************************************************)
\* the requests of course c that belong to one of the priority tiers
Demand(c) ==
    Cardinality({i \in 1..Len(course_requests[c]) :
                    InList(TypeOf(course_requests[c][i]), priority_order)})

TriedOf(c) == {n \in 1..M_NumSections(c) : <<c, n>> \in sections_tried}

C23_SectionsFromTotalDemand ==
    (Milestone2 /\ Phase2 /\ \A d \in Codes : M_MaxSize(d) >= 1) =>
        \A c \in Codes :
            TriedOf(c) =
                1..Min(M_NumSections(c),
                       FloorDiv(Demand(c) + M_MaxSize(c) - 1, M_MaxSize(c)))

(***************************************************************************)
(* C24: in both implementations Phase 1 runs to completion before Phase 2  *)
(* begins: a step that changes a section-block binding or a lecturer       *)
(* schedule happens while no roster or student-schedule entry exists and   *)
(* no request has been attempted, and once a request has been attempted no *)
(* step changes section_blocks or teacher_schedule; a step that writes a   *)
(* roster or a student schedule is a step of Phase 2.                      *)
(***************************************************************************)
C24_Phase1ThenPhase2 ==
    [][/\ (section_blocks' # section_blocks \/ teacher_schedule' # teacher_schedule)
          => /\ attempts = <<>>
             /\ Entries(student_schedule) = {}
             /\ \A k \in DOMAIN section_assignments : section_assignments[k] = <<>>
             /\ pc = "p1_section"
       /\ (attempts # <<>> /\ first_run' = first_run)
          => /\ section_blocks' = section_blocks
             /\ teacher_schedule' = teacher_schedule
       /\ (student_schedule' # student_schedule
           \/ section_assignments' # section_assignments)
          => /\ pc = "p2_request"
             /\ sections_tried' = sections_tried]_vars

\* requests have been attempted and rosters written after sections of both
\* courses were bound
C24_Witness ==
    /\ attempts # <<>>
    /\ Entries(student_schedule) # {}
    /\ \A c \in Codes : \E n \in 1..MaxSections : Bound(c, n)

(***************************************************************************)
(* C25: in both implementations Phase 1 changes lecturer schedules and     *)
(* section-block bindings only: no step of Phase 1 changes a student       *)
(* schedule, a roster, resolved or unresolved, whatever the input          *)
(* (requests for unknown courses included).                                *)
(***************************************************************************)
C25_Phase1SideEffects ==
    [][(pc \in {"p1_course", "p1_section"})
       => (/\ student_schedule' = student_schedule
           /\ section_assignments' = section_assignments
           /\ resolved' = resolved
           /\ unresolved' = unresolved)]_vars

(***************************************************************************)
(* C26: in milestone2 a max_size of 0 in one course is absorbed locally:   *)
(* the sections of every other course are still bound as they would be     *)
(* without the defective course.  In particular, when a course d has       *)
(* max_size 0, any other course c with a request of one of the tiers, at   *)
(* least one declared section, a max_size of at least 1 and an eligible    *)
(* block that is not excluded has its section 1 bound when Phase 2 starts  *)
(* (without d, nothing stands in the way of section 1 of c in the first    *)
(* pass that has a request of c).                                          *)
(***************************************************************************)
Defective(d) == d \in DOMAIN course_details /\ M_MaxSize(d) = 0

C26_DefectAbsorbedLocally ==
    (Milestone2 /\ Phase2) =>
        \A d \in Codes : Defective(d) =>
            \A c \in Codes \ {d} :
                (/\ Demand(c) >= 1
                 /\ M_NumSections(c) >= 1
                 /\ M_MaxSize(c) >= 1
                 /\ \E i \in 1..Len(M_AvailableBlocks(c)) :
                       M_AvailableBlocks(c)[i] \notin M_UnavailableBlocks(c))
                => Bound(c, 1)

(***************************************************************************)
(* C27: in milestone2, at the end of the run, a lecturer's schedule has an *)
(* entry for block b naming section s if and only if s is a section of     *)
(* that lecturer whose bound block is b.                                   *)
(***************************************************************************)
C27_LecturerScheduleAgrees ==
    (Milestone2 /\ Done) =>
        /\ \A l \in DOMAIN teacher_schedule :
              \A b \in DOMAIN teacher_schedule[l] :
                  \E c \in Codes :
                      \E n \in 1..M_NumSections(c) :
                          /\ teacher_schedule[l][b] = CourseInfo(c, n)
                          /\ LecturerOf(c, n) = l
                          /\ Bound(c, n)
                          /\ BlockOf(c, n) = b
        /\ \A c \in Codes :
              \A n \in 1..M_NumSections(c) :
                  Bound(c, n) =>
                      Get(Get(teacher_schedule, LecturerOf(c, n), EmptyDict),
                          BlockOf(c, n), None) = CourseInfo(c, n)

(***************************************************************************)
(* C28: in both implementations, in every state of Phase 2 the student     *)
(* schedules and the rosters agree: student s is in the roster of section  *)
(* k exactly when s's schedule maps k's bound block to k, no roster lists  *)
(* a student twice, and the number of resolved requests equals the sum of  *)
(* the roster sizes and the number of student-schedule entries.            *)
(***************************************************************************)
RECURSIVE SumOver(_, _)
\* the sum of size[k] over the keys k of set keys
SumOver(size, keys) ==
    IF keys = {} THEN 0
    ELSE LET k == CHOOSE x \in keys : TRUE
         IN  size[k] + SumOver(size, keys \ {k})

RosterSizes ==
    SumOver([k \in DOMAIN section_assignments |-> Len(section_assignments[k])],
            DOMAIN section_assignments)

ScheduleEntries ==
    SumOver([s \in DOMAIN student_schedule |-> Cardinality(DOMAIN student_schedule[s])],
            DOMAIN student_schedule)

\* student s is in the roster of section k exactly when s's schedule maps
\* the block k is bound to to k, and the roster lists nobody twice
AgreeOn(c, n) ==
    LET k == SectionKey(c, n)
        roster == Get(section_assignments, k, <<>>)
        members == Range(roster)
    IN  /\ \A s \in members :
              /\ k \in DOMAIN section_blocks
              /\ Get(Get(student_schedule, s, EmptyDict), section_blocks[k], None)
                    = CourseInfo(c, n)
              /\ Count(roster, s) = 1
        /\ k \in DOMAIN section_blocks =>
              \A s \in DOMAIN student_schedule :
                  Get(student_schedule[s], section_blocks[k], None) = CourseInfo(c, n)
                  => s \in members

C28_SchedulesAgreeWithRosters ==
    Phase2 =>
        /\ \A c \in Codes :
              Scanned(c) => \A n \in 1..NumSectionsOf(c) : AgreeOn(c, n)
        /\ \A k \in DOMAIN section_assignments :
              section_assignments[k] # <<>> =>
                  \E c \in Codes :
                      Scanned(c) /\ \E n \in 1..NumSectionsOf(c) : k = SectionKey(c, n)
        /\ Len(resolved) = RosterSizes
        /\ Len(resolved) = ScheduleEntries

\* a student is on the rosters of two sections, on two blocks, and a request
\* with a student id has failed
C28_Witness ==
    /\ Phase2
    /\ Len(resolved) >= 2
    /\ \E i \in 1..Len(attempts) : HasStudent(attempts[i].req) /\ ~attempts[i].assigned
    /\ \E s \in DOMAIN student_schedule : Cardinality(DOMAIN student_schedule[s]) = 2
    /\ Cardinality({k \in DOMAIN section_assignments : section_assignments[k] # <<>>}) >= 2

(***************************************************************************)
(* C29: in both implementations, at the end of the run no student is on    *)
(* the rosters of two different sections of the same course, also when the *)
(* student has two or more requests for that course.                       *)
(***************************************************************************)
C29_OneSectionPerCourse ==
    Done =>
        \A c \in Codes :
            Scanned(c) =>
                \A n1, n2 \in 1..NumSectionsOf(c) :
                    n1 # n2 =>
                        Range(Roster(section_assignments, c, n1))
                            \cap Range(Roster(section_assignments, c, n2)) = {}

(***************************************************************************)
(* C30: in both implementations, at the end of the run every unresolved    *)
(* request with a student id whose sections were scanned (in               *)
(* simple_scheduler: a request for a known course) has no usable seat:     *)
(* each section of its course is unbound, or holds at least max_size       *)
(* students, or is on a block the student occupies.  Rosters and student   *)
(* schedules only grow from step to step.                                  *)
(***************************************************************************)
Occupies(s, b) == b \in DOMAIN Get(student_schedule, s, EmptyDict)

NoUsableSeat(c, s) ==
    \A n \in 1..NumSectionsOf(c) :
        \/ ~Bound(c, n)
        \/ Len(Roster(section_assignments, c, n)) >= MaxSizeOf(c)
        \/ Occupies(s, BlockOf(c, n))

C30_UnresolvedHaveNoSeat ==
    Done =>
        \A c \in Codes :
            Scanned(c) =>
                \A r \in Range(course_requests[c]) \cap Range(unresolved) :
                    HasStudent(r) => NoUsableSeat(c, r.student_ID)

C30_OnlyGrow ==
    [][/\ \A k \in DOMAIN section_assignments :
             /\ k \in DOMAIN section_assignments'
             /\ Len(section_assignments'[k]) >= Len(section_assignments[k])
             /\ SubSeq(section_assignments'[k], 1, Len(section_assignments[k]))
                   = section_assignments[k]
       /\ \A s \in DOMAIN student_schedule :
             /\ s \in DOMAIN student_schedule'
             /\ \A b \in DOMAIN student_schedule[s] :
                   /\ b \in DOMAIN student_schedule'[s]
                   /\ student_schedule'[s][b] = student_schedule[s][b]]_vars

C30_NoSeatLeft == [](C30_UnresolvedHaveNoSeat) /\ C30_OnlyGrow

\* a request with a student id failed while a later request of another student
\* for the same course was resolved, and the run has ended
C30_Witness ==
    /\ Done
    /\ \E i, j \in 1..Len(attempts) :
          /\ i < j
          /\ HasStudent(attempts[i].req)
          /\ ~attempts[i].assigned
          /\ attempts[j].assigned
          /\ attempts[j].course_code = attempts[i].course_code
          /\ \E n \in 1..NumSectionsOf(attempts[i].course_code) :
                Bound(attempts[i].course_code, n)

====
